---- MODULE Spec2Model ----
(***************************************************************************)
(* Model of split-whitespace-rest (src/src/lib.rs): a whitespace-splitting *)
(* iterator over a borrowed &str that can hand out the rest of the string. *)
(*                                                                         *)
(* A &str is a sequence of UTF-8 bytes.  The original buffer is            *)
(* text == Encode(input); self.slice is the byte span [lo, hi) of it.      *)
(***************************************************************************)
EXTENDS Integers, Sequences, FiniteSets, TLC

VARIABLES
    input,  \* the code points of the text given to new()
    slice,  \* self.slice, as the byte span [lo, hi) of the buffer
    op,     \* the operation called last
    ret,    \* what it returned
    out,    \* the tokens next() has returned so far, as spans
    done,   \* some call of next() has returned None
    pc,     \* "loop" while a call of next() is inside its loop
    writes, \* how many times self.slice has been changed
    fork    \* for a tokenizer rebuilt from rest_as_slice(): what the calls
            \* of next() on the tokenizer it was built from go on to
            \* return (expect), how many of them it has made (k), and how
            \* many tokens the other one had returned by then (at)
vars == <<input, slice, op, ret, out, done, pc, writes, fork>>

\* Bound: number of code points of the input text.
MaxChars == 5

\* Code points the inputs are drawn from: 'a', ' ', U+00A0 (no-break space,
\* whitespace, two bytes in UTF-8) and U+00E9 (not whitespace, two bytes).
CodePoints == {97, 32, 160, 233}

\* char::is_whitespace (the Unicode White_Space property).
is_whitespace(c) ==
    \/ c \in 9..13
    \/ c \in {32, 133, 160, 5760, 8232, 8233, 8239, 8287, 12288}
    \/ c \in 8192..8202

\* UTF-8 encoding of one code point below U+0800.
EncodeChar(c) ==
    IF c < 128 THEN <<c>> ELSE <<192 + (c \div 64), 128 + (c % 64)>>

RECURSIVE Encode(_)
Encode(cs) ==
    IF cs = <<>> THEN <<>> ELSE EncodeChar(Head(cs)) \o Encode(Tail(cs))

\* The buffer handed to SplitWhitespace::new.
text == Encode(input)

\* The bytes of the span sp of the buffer.
Bytes(sp) == SubSeq(text, sp.lo + 1, sp.hi)

\* str::len and str::is_empty of a span.
len(sp) == sp.hi - sp.lo
is_empty(sp) == len(sp) = 0

\* str::is_char_boundary: index i of the byte sequence s.
is_char_boundary(s, i) ==
    \/ i = 0
    \/ i = Len(s)
    \/ /\ i > 0 /\ i < Len(s)
       /\ ~(s[i + 1] \in 128..191)

\* Width in bytes of the code point whose lead byte is b.
CharWidth(b) == IF b < 128 THEN 1 ELSE IF b < 224 THEN 2 ELSE IF b < 240 THEN 3 ELSE 4

\* The code point that starts at (0-based) byte index i of s.
DecodeAt(s, i) ==
    IF s[i + 1] < 128 THEN s[i + 1]
    ELSE (s[i + 1] - 192) * 64 + (s[i + 2] - 128)

\* The code points encoded by the byte sequence s.
RECURSIVE Decode(_)
Decode(s) ==
    IF s = <<>> THEN <<>>
    ELSE <<DecodeAt(s, 0)>> \o Decode(SubSeq(s, CharWidth(s[1]) + 1, Len(s)))

\* str::find(|c| c.is_whitespace()): byte offset of the first whitespace
\* code point at or after i, or -1 for None.
RECURSIVE FindFrom(_, _)
FindFrom(s, i) ==
    IF i >= Len(s) THEN -1
    ELSE IF is_whitespace(DecodeAt(s, i)) THEN i
    ELSE FindFrom(s, i + CharWidth(s[i + 1]))

find(s) == FindFrom(s, 0)

\* A range index &s[a..b] succeeds iff a <= b <= len and both are boundaries.
SliceOk(s, a, b) ==
    /\ a <= b /\ b <= Len(s)
    /\ is_char_boundary(s, a) /\ is_char_boundary(s, b)

NoSpan == [lo |-> 0, hi |-> 0]

\* Variant of SkipTo: resumes one byte too far.
SkipTo_TwoBytes(offset) == offset + 2

\* The offset next() resumes the slice at after a whitespace at `offset`.
SkipTo(offset) == offset + 1

\* Variant of FoundArm: the token is cut from the start of the buffer, not
\* from the start of the slice.
FoundArm_TokenFromBufferStart(sp, offset) ==
    LET s == Bytes(sp)
    IN IF ~SliceOk(s, 0, offset) \/ ~SliceOk(s, SkipTo(offset), Len(s))
       THEN [kind |-> "panic", slice |-> sp, tok |-> NoSpan]
       ELSE LET sub == [lo |-> 0, hi |-> sp.lo + offset]
                rest == [lo |-> sp.lo + SkipTo(offset), hi |-> sp.hi]
            IN IF is_empty(sub)
               THEN [kind |-> "continue", slice |-> rest, tok |-> NoSpan]
               ELSE [kind |-> "Some", slice |-> rest, tok |-> sub]

\* Variant of FoundArm: the `sub.is_empty()` test is missing, so the empty
\* piece before a whitespace is returned as a token.
FoundArm_NoEmptyTest(sp, offset) ==
    LET s == Bytes(sp)
    IN IF ~SliceOk(s, 0, offset) \/ ~SliceOk(s, SkipTo(offset), Len(s))
       THEN [kind |-> "panic", slice |-> sp, tok |-> NoSpan]
       ELSE [kind |-> "Some",
             slice |-> [lo |-> sp.lo + SkipTo(offset), hi |-> sp.hi],
             tok |-> [lo |-> sp.lo, hi |-> sp.lo + offset]]

\* The arm `Some(offset) => ...` of the match in next(), self.slice = sp.
\* kind: "continue" | "Some" | "None" | "panic"; tok: the span returned.
FoundArm(sp, offset) ==
    LET s == Bytes(sp)
    IN IF ~SliceOk(s, 0, offset)
       THEN [kind |-> "panic", slice |-> sp, tok |-> NoSpan]
       ELSE LET sub == [lo |-> sp.lo, hi |-> sp.lo + offset]
            IN IF ~SliceOk(s, SkipTo(offset), Len(s))
               THEN [kind |-> "panic", slice |-> sp, tok |-> NoSpan]
               ELSE LET rest == [lo |-> sp.lo + SkipTo(offset), hi |-> sp.hi]
                    IN IF is_empty(sub)
                       THEN [kind |-> "continue", slice |-> rest, tok |-> NoSpan]
                       ELSE [kind |-> "Some", slice |-> rest, tok |-> sub]

\* Variant of NoneArm: the emptiness test is inverted.
NoneArm_Inverted(sp) ==
    IF is_empty(sp)
    THEN [kind |-> "Some", slice |-> [lo |-> sp.lo + len(sp), hi |-> sp.hi],
          tok |-> sp]
    ELSE [kind |-> "None", slice |-> sp, tok |-> NoSpan]

\* Variant of NoneArm: the slice is emptied with `&self.slice[..0]`.
NoneArm_EmptyPrefix(sp) ==
    IF ~is_empty(sp)
    THEN [kind |-> "Some", slice |-> [lo |-> sp.lo, hi |-> sp.lo], tok |-> sp]
    ELSE [kind |-> "None", slice |-> sp, tok |-> NoSpan]

\* Variant of NoneArm: the last token is returned without emptying the slice.
NoneArm_KeepsSlice(sp) ==
    IF ~is_empty(sp)
    THEN [kind |-> "Some", slice |-> sp, tok |-> sp]
    ELSE [kind |-> "None", slice |-> sp, tok |-> NoSpan]

\* The arm `None => ...` of the match in next(), self.slice = sp.
NoneArm(sp) ==
    IF ~is_empty(sp)
    THEN [kind |-> "Some", slice |-> [lo |-> sp.lo + len(sp), hi |-> sp.hi],
          tok |-> sp]
    ELSE [kind |-> "None", slice |-> sp, tok |-> NoSpan]

\* One iteration of the loop of next() on self.slice = sp.
LoopBody(sp) ==
    LET offset == find(Bytes(sp))
    IN IF offset # -1 THEN FoundArm(sp, offset) ELSE NoneArm(sp)

\* The whole of next(): the loop run until it breaks or panics.
RECURSIVE next(_)
next(sp) ==
    LET r == LoopBody(sp)
    IN IF r.kind = "continue" THEN next(r.slice) ELSE r

\* Variant of rest_as_slice: a leading space is trimmed from the view.
rest_as_slice_Trimmed(sp) ==
    IF ~is_empty(sp) /\ text[sp.lo + 1] = 32
    THEN [lo |-> sp.lo + 1, hi |-> sp.hi]
    ELSE sp

\* rest_as_slice(): the stored span.
rest_as_slice(sp) == sp

\* Variant of new: a leading space of the text is dropped on construction.
new_TrimStart(s) ==
    [lo |-> IF Len(s) > 0 /\ s[1] = 32 THEN 1 ELSE 0, hi |-> Len(s)]

\* SplitWhitespace::new(slice).
new(s) == [lo |-> 0, hi |-> Len(s)]

RECURSIVE SeqsUpTo(_, _)
SeqsUpTo(S, n) ==
    IF n = 0 THEN {<<>>}
    ELSE LET P == SeqsUpTo(S, n - 1)
         IN P \cup {Append(p, c) : p \in {q \in P : Len(q) = n - 1}, c \in S}

Inputs == SeqsUpTo(CodePoints, MaxChars)

\* A tokenizer that was not rebuilt from another one.
NoFork == [expect |-> <<>>, k |-> 0, at |-> 0]

Init ==
    /\ input \in Inputs
    /\ slice = new(Encode(input))
    /\ op = "new"
    /\ ret = [kind |-> "new", lo |-> 0, hi |-> 0]
    /\ out = <<>>
    /\ done = FALSE
    /\ pc = "idle"
    /\ writes = 0
    /\ fork = NoFork

\* A thread that panicked has unwound: nothing is called any more.
Running == ret.kind # "panic"

Ret(r) == [kind |-> r.kind, lo |-> r.tok.lo, hi |-> r.tok.hi]

\* How many iterations of the loop of next() on self.slice = sp change
\* self.slice.
RECURSIVE assignments(_)
assignments(sp) ==
    LET r == LoopBody(sp)
    IN (IF r.slice # sp THEN 1 ELSE 0)
       + (IF r.kind = "continue" THEN assignments(r.slice) ELSE 0)

\* A call of next() has returned: the rebuilt tokenizer is one call further.
Advance(f) == IF f.k < Len(f.expect) THEN [f EXCEPT !.k = f.k + 1] ELSE f

\* A call of next(), as one step.
Next_call ==
    /\ Running /\ pc = "idle"
    /\ LET r == next(slice)
       IN /\ slice' = r.slice
          /\ ret' = Ret(r)
          /\ out' = IF r.kind = "Some" THEN Append(out, r.tok) ELSE out
          /\ done' = (done \/ r.kind = "None")
    /\ writes' = writes + assignments(slice)
    /\ fork' = Advance(fork)
    /\ op' = "next"
    /\ UNCHANGED <<input, pc>>

\* A call of rest_as_slice().
RestAsSlice ==
    /\ Running /\ pc = "idle"
    /\ LET r == rest_as_slice(slice)
       IN ret' = [kind |-> "rest", lo |-> r.lo, hi |-> r.hi]
    /\ op' = "rest_as_slice"
    /\ UNCHANGED <<input, slice, out, done, pc, writes, fork>>

Next == Next_call \/ RestAsSlice

Spec == Init /\ [][Next]_vars

----------------------------------------------------------------------------
\* The program with tokenizers rebuilt from the rest of a running one.

\* What the calls of next() from self.slice = sp return, up to and including
\* the first that returns no token: the token and the rest after each call,
\* as bytes.
RECURSIVE Continuation(_)
Continuation(sp) ==
    LET r == next(sp)
        o == [kind |-> r.kind, tok |-> Bytes(r.tok), rest |-> Bytes(r.slice)]
    IN IF r.kind = "Some" THEN <<o>> \o Continuation(r.slice) ELSE <<o>>

\* SplitWhitespace::new(sw.rest_as_slice()): from here on the state is that
\* of the new tokenizer, whose buffer is the rest of the old one.
Rebuild ==
    /\ Running /\ pc = "idle"
    /\ LET buf == Bytes(rest_as_slice(slice))
       IN /\ input' = Decode(buf)
          /\ slice' = new(buf)
    /\ fork' = [expect |-> Continuation(slice), k |-> 0, at |-> Len(out)]
    /\ op' = "new"
    /\ ret' = [kind |-> "new", lo |-> 0, hi |-> 0]
    /\ out' = <<>>
    /\ done' = FALSE
    /\ writes' = 0
    /\ UNCHANGED pc

ForkNext == Next_call \/ RestAsSlice \/ Rebuild

ForkSpec == Init /\ [][ForkNext]_vars

----------------------------------------------------------------------------
\* The same program with next() taken one loop iteration at a time.

NextEnter ==
    /\ Running /\ pc = "idle"
    /\ pc' = "loop"
    /\ op' = "next"
    /\ ret' = [kind |-> "pending", lo |-> 0, hi |-> 0]
    /\ UNCHANGED <<input, slice, out, done, writes, fork>>

LoopIter ==
    /\ pc = "loop"
    /\ LET r == LoopBody(slice)
       IN /\ slice' = r.slice
          /\ pc' = IF r.kind = "continue" THEN "loop" ELSE "idle"
          /\ ret' = IF r.kind = "continue" THEN ret ELSE Ret(r)
          /\ out' = IF r.kind = "Some" THEN Append(out, r.tok) ELSE out
          /\ done' = (done \/ r.kind = "None")
          /\ writes' = writes + (IF r.slice # slice THEN 1 ELSE 0)
          /\ fork' = IF r.kind = "continue" THEN fork ELSE Advance(fork)
    /\ UNCHANGED <<input, op>>

StepNext == NextEnter \/ LoopIter \/ RestAsSlice

StepSpec == Init /\ [][StepNext]_vars

\* Bound: number of code points of the input text in the fair runs.
MaxCharsFair == 3

InitFair == Init /\ Len(input) <= MaxCharsFair

\* The caller keeps calling next(), and a running call keeps executing.
FairStepSpec ==
    InitFair /\ [][StepNext]_vars /\ WF_vars(NextEnter) /\ WF_vars(LoopIter)

----------------------------------------------------------------------------
\* Properties.

\* The maximal runs of non-whitespace code points of cs, left to right;
\* cur is the run being collected.
RECURSIVE RunsFrom(_, _)
RunsFrom(cs, cur) ==
    IF cs = <<>> THEN (IF cur = <<>> THEN <<>> ELSE <<cur>>)
    ELSE IF is_whitespace(Head(cs))
         THEN (IF cur = <<>> THEN <<>> ELSE <<cur>>) \o RunsFrom(Tail(cs), <<>>)
         ELSE RunsFrom(Tail(cs), Append(cur, Head(cs)))

Runs(cs) == RunsFrom(cs, <<>>)

\* The tokens returned so far are the first Len(out) runs of the input.
OutIsPrefixOfRuns ==
    /\ Len(out) <= Len(Runs(input))
    /\ \A i \in 1..Len(out) : Bytes(out[i]) = Encode(Runs(input)[i])

\* C1: every call of next() returns the next maximal run of non-whitespace
\* code points of the input, and None exactly when all runs were returned.
C1_TokensAreRuns ==
    (op = "next" /\ pc = "idle") =>
        /\ ret.kind \in {"Some", "None"}
        /\ OutIsPrefixOfRuns
        /\ ret.kind = "None" => Len(out) = Len(Runs(input))

\* C2: no call of next() panics: every slicing step uses an offset inside
\* the remaining span and on a code point boundary.
C2_NoPanic == ret.kind # "panic"


\* C3: after a call of next() that returned a token ended by a whitespace
\* code point w, the rest is the suffix of the input that starts right
\* after w: only w is dropped.
C3_RestStartsAfterOneWhitespace ==
    (op = "next" /\ ret.kind = "Some" /\ ret.hi < Len(text)) =>
        /\ is_whitespace(DecodeAt(text, ret.hi))
        /\ slice = [lo |-> ret.hi + CharWidth(text[ret.hi + 1]), hi |-> Len(text)]

\* A token was returned and the rest begins with further whitespace.
C3_Witness ==
    /\ op = "next" /\ ret.kind = "Some" /\ ret.hi < Len(text)
    /\ slice.lo < slice.hi
    /\ is_whitespace(DecodeAt(text, slice.lo))

\* C4: every token returned by next() is non-empty and holds no whitespace
\* code point.
C4_TokensNonEmptyNoWhitespace ==
    \A i \in 1..Len(out) :
        /\ out[i].lo < out[i].hi
        /\ LET cs == Decode(Bytes(out[i]))
           IN \A k \in 1..Len(cs) : ~is_whitespace(cs[k])

\* Two tokens were returned with more than one whitespace between them.
C4_Witness ==
    /\ Len(out) >= 2
    /\ out[1].hi + 1 < out[2].lo

\* C5: once next() has returned None, remaining is empty and stays as it
\* is, every later next() returns None and rest_as_slice() returns the
\* empty span.
C5_ExhaustionIsTerminal ==
    [][done =>
        /\ is_empty(slice) /\ slice' = slice /\ out' = out /\ done'
        /\ op' = "next" => ret'.kind = "None"
        /\ op' = "rest_as_slice" => (ret'.kind = "rest" /\ ret'.lo = ret'.hi)]_vars

\* rest_as_slice() was called after next() returned None, tokens before it.
C5_Witness ==
    /\ done /\ Len(out) > 0
    /\ op = "rest_as_slice" /\ ret.lo = ret.hi


\* C6: rest_as_slice() returns the stored remaining span as it is and
\* changes nothing of the tokenizer: remaining, the tokens returned and
\* exhaustion are the same after the call as before it.
C6_RestAsSliceIsPureObserver ==
    [][op' = "rest_as_slice" =>
        /\ ret' = [kind |-> "rest", lo |-> slice.lo, hi |-> slice.hi]
        /\ slice' = slice /\ out' = out /\ done' = done /\ input' = input]_vars

\* rest_as_slice() was called between calls of next() and returned a span
\* that still begins with whitespace.
C6_Witness ==
    /\ op = "rest_as_slice" /\ Len(out) > 0 /\ ~done
    /\ ret.lo < ret.hi /\ ret = [kind |-> "rest", lo |-> slice.lo, hi |-> slice.hi]
    /\ is_whitespace(DecodeAt(text, ret.lo))

\* C7: remaining is always a suffix of the input that starts on a code point
\* boundary, and every returned token is a span of the input that lies
\* before remaining.
C7_RemainingIsSuffix ==
    /\ slice.hi = Len(text)
    /\ 0 <= slice.lo /\ slice.lo <= slice.hi
    /\ is_char_boundary(text, slice.lo)
    /\ \A i \in 1..Len(out) :
        /\ 0 <= out[i].lo /\ out[i].lo <= out[i].hi
        /\ out[i].hi <= slice.lo

\* The last token of the input was returned by the None arm, after others.
C7_Witness ==
    /\ op = "next" /\ ret.kind = "Some" /\ Len(out) >= 2
    /\ ret.hi = Len(text) /\ is_empty(slice)

\* C8: the length of remaining never increases, and a call of next() that
\* returns a token strictly decreases it.
C8_RemainingShrinks ==
    [][/\ len(slice') <= len(slice)
       /\ Len(out') > Len(out) => len(slice') < len(slice)]_vars

\* A token was returned and a non-empty rest is left.
C8_Witness ==
    /\ op = "next" /\ ret.kind = "Some" /\ Len(out) >= 2
    /\ len(slice) > 0 /\ len(slice) < Len(text)

\* C9: every call of next() leaves its loop, and repeated calls of next()
\* reach the call that returns None.
C9_CallsTerminateAndSequenceEnds ==
    /\ (pc = "loop") ~> (pc = "idle")
    /\ <>done

\* C10: rest_as_slice() called right after new() returns the whole input,
\* and on the empty input the first next() returns None.
C10_FreshRestIsWholeInput ==
    [][op = "new" =>
        /\ op' = "rest_as_slice" =>
              (ret'.lo = 0 /\ ret'.hi = Len(text) /\ Bytes(ret') = text)
        /\ (op' = "next" /\ input = <<>>) => ret'.kind = "None"]_vars

\* rest_as_slice() was called before any next() on a text that begins with
\* whitespace, and returned all of it.
C10_Witness ==
    /\ op = "rest_as_slice" /\ out = <<>> /\ Len(text) > 0
    /\ ret = [kind |-> "rest", lo |-> 0, hi |-> Len(text)]
    /\ is_whitespace(DecodeAt(text, 0))


\* The bytes of the tokens ts, one after the other.
RECURSIVE ConcatTokens(_)
ConcatTokens(ts) ==
    IF ts = <<>> THEN <<>> ELSE Bytes(Head(ts)) \o ConcatTokens(Tail(ts))

IsNotWhitespace(c) == ~is_whitespace(c)

\* C11: when the calls of next() have stopped yielding tokens, the tokens
\* returned, concatenated in order, are the input with every whitespace code
\* point deleted.
C11_TokensAreInputWithoutWhitespace ==
    (op = "next" /\ pc = "idle" /\ ret.kind \in {"None", "panic"}) =>
        ConcatTokens(out) = Encode(SelectSeq(input, IsNotWhitespace))


\* A step in which a call of next() returned a token ended by a whitespace
\* code point.
ReturnedEndedToken ==
    /\ Len(out') = Len(out) + 1
    /\ ret'.kind = "Some"
    /\ ret'.hi < Len(text)

\* The span sp holds whitespace code points only (or nothing).
OnlyWhitespace(sp) ==
    LET cs == Decode(Bytes(sp))
    IN \A k \in 1..Len(cs) : is_whitespace(cs[k])

\* C12 as stated: a call of next() that returns a token t ended by a
\* whitespace code point removes t and that one code point and nothing
\* else: remaining before = t, one whitespace code point, remaining after.
C12_RemovesTokenAndOneWhitespace ==
    [][ReturnedEndedToken =>
        /\ ret'.lo = slice.lo
        /\ is_whitespace(DecodeAt(text, ret'.hi))
        /\ slice'.lo = ret'.hi + CharWidth(text[ret'.hi + 1])
        /\ slice'.hi = slice.hi]_vars

\* C12 amended: the call removes the whitespace code points that precede t
\* in remaining, then t, then one whitespace code point: remaining before =
\* zero or more whitespace code points, t, one whitespace code point,
\* remaining after.
C12_RemovesLeadingWhitespaceTokenAndOneWhitespace ==
    [][ReturnedEndedToken =>
        /\ slice.lo <= ret'.lo
        /\ OnlyWhitespace([lo |-> slice.lo, hi |-> ret'.lo])
        /\ is_whitespace(DecodeAt(text, ret'.hi))
        /\ slice'.lo = ret'.hi + CharWidth(text[ret'.hi + 1])
        /\ slice'.hi = slice.hi]_vars

\* A token was returned by a call that first skipped whitespace, and it was
\* ended by a whitespace code point.
C12_Witness ==
    /\ op = "next" /\ ret.kind = "Some" /\ ret.hi < Len(text)
    /\ Len(out) = 1 /\ ret.lo > 0
    /\ slice.lo = ret.hi + 1


\* C13: a call of next() on a remaining that is empty or holds whitespace
\* code points only returns None and leaves remaining empty.
C13_OnlyWhitespaceGivesNone ==
    [][(OnlyWhitespace(slice) /\ op' = "next") =>
        /\ ret'.kind = "None"
        /\ is_empty(slice')
        /\ out' = out]_vars

\* C14: a call of next() on a non-empty remaining without whitespace returns
\* all of it and empties remaining, and the call of next() after that one
\* returns None.
C14_LastWordReturnedOnce ==
    [][/\ (/\ ~is_empty(slice)
           /\ \A k \in 1..Len(Decode(Bytes(slice))) :
                  ~is_whitespace(Decode(Bytes(slice))[k])
           /\ op' = "next")
          => /\ ret' = [kind |-> "Some", lo |-> slice.lo, hi |-> slice.hi]
             /\ out' = Append(out, slice)
             /\ is_empty(slice') /\ slice'.hi = slice.hi
       /\ (/\ op = "next" /\ ret.kind = "Some" /\ ret.hi = Len(text)
           /\ op' = "next")
          => /\ ret'.kind = "None"
             /\ out' = out /\ is_empty(slice')]_vars

\* next() returned None right after it returned the last word of a text
\* that does not end with whitespace.
C14_Witness ==
    /\ op = "next" /\ ret.kind = "None" /\ done
    /\ Len(out) >= 2
    /\ out[Len(out)].hi = Len(text)


\* C15: a tokenizer built with SplitWhitespace::new(rest_as_slice()) returns,
\* call after call, what the tokenizer it was built from goes on to return:
\* the same tokens, the same rests and the same end of the sequence.
C15_DependsOnlyOnRemaining ==
    (fork.expect # <<>> /\ fork.k > 0) =>
        LET e == fork.expect[fork.k]
        IN /\ Bytes(slice) = e.rest
           /\ op = "next" => (ret.kind = e.kind /\ Bytes(ret) = e.tok)
           /\ op = "rest_as_slice" => Bytes(ret) = e.rest

\* A tokenizer rebuilt in the middle of a run, from a rest that begins with
\* whitespace, has returned a token and then None.
C15_Witness ==
    /\ fork.at >= 1 /\ fork.k = 2 /\ Len(fork.expect) = 2
    /\ op = "next" /\ ret.kind = "None"
    /\ Len(out) = 1 /\ out[1].lo > 0


\* How many whitespace code points the code points cs hold.
WhitespaceCount(cs) == Len(SelectSeq(cs, is_whitespace))

\* The whitespace code points consumed so far that did not end a token:
\* those of the consumed prefix of the input, less one for every token
\* returned that a consumed whitespace code point ended.
WhitespaceSkipped ==
    WhitespaceCount(Decode(SubSeq(text, 1, slice.lo)))
        - Cardinality({i \in 1..Len(out) : out[i].hi < slice.lo})

\* C16: at every point, inside a call of next() or between calls, remaining
\* has been changed once for every whitespace code point skipped and once
\* for every token returned.
C16_OneAssignmentPerSkipAndToken ==
    writes = WhitespaceSkipped + Len(out)

\* Inside a call of next(), after tokens were returned and whitespace was
\* skipped before the first token and again in this call.
C16_Witness ==
    /\ pc = "loop" /\ Len(out) >= 1 /\ out[1].lo > 0
    /\ out[Len(out)].hi + 1 < slice.lo
    /\ writes >= 4


\* How many whitespace code points end the code points cs.
RECURSIVE TrailingWhitespace(_)
TrailingWhitespace(cs) ==
    IF cs = <<>> \/ ~is_whitespace(cs[Len(cs)]) THEN 0
    ELSE 1 + TrailingWhitespace(SubSeq(cs, 1, Len(cs) - 1))

\* The last call of next() returned the last token of the input.
LastTokenReturned ==
    /\ op = "next" /\ ret.kind = "Some"
    /\ Len(out) = Len(Runs(input))

\* C17: right after the last token is returned no end of sequence has been
\* signalled; remaining is then empty if at most one whitespace code point
\* follows that token in the input, and the next call of next() returns
\* None; it is non-empty, all whitespace, if more than one follows.
C17_EmptyRemainingIsNotExhaustion ==
    [][/\ LastTokenReturned' =>
            /\ ~done'
            /\ TrailingWhitespace(input) <= 1 => is_empty(slice')
            /\ TrailingWhitespace(input) > 1 =>
                   (~is_empty(slice') /\ OnlyWhitespace(slice'))
       /\ (LastTokenReturned /\ TrailingWhitespace(input) <= 1 /\ op' = "next")
            => (ret'.kind = "None" /\ done' /\ is_empty(slice'))]_vars

\* The last token was returned, one whitespace code point followed it in the
\* input, and remaining is empty with no None returned yet.
C17_Witness ==
    /\ LastTokenReturned /\ Len(out) >= 2
    /\ TrailingWhitespace(input) = 1
    /\ is_empty(slice) /\ ~done

\* The last token was returned and remaining still holds the whitespace
\* that followed it.
C17_WitnessTrailing ==
    /\ LastTokenReturned
    /\ TrailingWhitespace(input) > 1
    /\ ~is_empty(slice) /\ ~done

====
